---- MODULE Spec2Model ----
(***************************************************************************)
(* Temporal rating and lineage engine of failmap: the organization merge   *)
(* (merge_organizations_2018.py), the admin declare_dead action (admin.py) *)
(* and the point-in-time queries of the map views (views.py).              *)
(***************************************************************************)
EXTENDS Integers, Sequences, FiniteSets, TLC

\* ------------------------------------------------------------------ bounds
MaxTime == 2
MaxOrgs == 5
MaxRatings == 3
MaxSources == 2
MaxChainOrgs == 6
MaxClassified == 1
MaxSev == 2
MaxBuilt == 4
MaxRanked == 3
MaxCounted == 8
MaxDefaulted == 5
MaxEndpoints == 2
MaxScanned == 2

\* NULL of a nullable DateTimeField (is_dead_since, expires_on)
NoTime == -1

Times == 0..MaxTime
Names == {"A", "B", "C"}
Sev == 0..MaxSev

\* ------------------------------------------------------------------ state
VARIABLES
    orgs,       \* table organization: row id = index
    coords,     \* table coordinate
    promises,   \* table promise
    urls,       \* table url, with the url_organization edges as a set per url
    ratings,    \* table map_organizationrating
    now,        \* the clock read by datetime.now(pytz.utc)
    last,       \* the last merge: its outcome and, when it committed, its arguments
    tx          \* the merge whose transaction is open, with its working copy

vars == <<orgs, coords, promises, urls, ratings, now, last, tx>>

\* ------------------------------------------------------------ row builders
Org(n, ty, co, c, d, ds, r, tw) ==
    [name |-> n, type |-> ty, country |-> co, created_on |-> c,
     is_dead |-> d, is_dead_since |-> ds, is_dead_reason |-> r, twitter_handle |-> tw]

Coord(o, a, g, c, d, ds) ==
    [organization |-> o, area |-> a, geojsontype |-> g, created_on |-> c,
     is_dead |-> d, is_dead_since |-> ds]

Promise(o, c, e) == [organization |-> o, created_on |-> c, expires_on |-> e]

Url(u, os, c, d, ds) ==
    [url |-> u, organization |-> os, created_on |-> c, is_dead |-> d,
     is_dead_since |-> ds, is_dead_reason |-> ""]

\* --------------------------------------------------------------- sequences
Ids(s) == 1..Len(s)

RECURSIVE AppendAll(_, _)
AppendAll(s, t) == IF t = <<>> THEN s ELSE AppendAll(Append(s, Head(t)), Tail(t))

\* the rows of table s whose id is in the set ids, in id order
RECURSIVE RowsOf(_, _, _)
RowsOf(s, ids, i) ==
    IF i > Len(s) THEN <<>>
    ELSE IF i \in ids THEN <<s[i]>> \o RowsOf(s, ids, i + 1)
    ELSE RowsOf(s, ids, i + 1)

\* ------------------------------------------------------------- calculations
\* an endpoint of a url in a calculation, and a url of a calculation
Endpoint(p, port, v, rs) == [protocol |-> p, port |-> port, ip_version |-> v, ratings |-> rs]

UrlEntry(u, h, m, es) == [url |-> u, high |-> h, medium |-> m, endpoints |-> es]

\* the urls a calculation lists for organization o when it mentions endpoints: the urls
\* that carry an edge to o, the first of them with the counts of the snapshot
Listed(o, h, m, e) ==
    LET rows == RowsOf(urls, {i \in Ids(urls): o \in urls[i].organization}, 1) IN
    IF ~e THEN <<>>
    ELSE [k \in 1..Len(rows) |->
            UrlEntry(rows[k].url, IF k = 1 THEN h ELSE 0, IF k = 1 THEN m ELSE 0,
                     <<Endpoint("https", 443, 4, <<[type |-> "tls", explanation |-> "finding"]>>)>>)]

\* a row of map_organizationrating; endpoints: its calculation mentions "endpoints"
Rating(o, w, h, m, l, e) ==
    [organization |-> o, when |-> w, rating |-> h + m + l, high |-> h,
     medium |-> m, low |-> l, endpoints |-> e, calculation |-> Listed(o, h, m, e)]

\* ---------------------------------------------------------------- lifecycle
\* alive at T, as the stacking subqueries of the views decide it
AliveAt(e, T) ==
    \/ (e.created_on <= T /\ ~e.is_dead)
    \/ (e.created_on <= T /\ T <= e.is_dead_since /\ e.is_dead)

\* a merge that sets is_dead and forgets is_dead_since
MarkDeadNoSince(e, when, reason) ==
    [e EXCEPT !.is_dead = TRUE, !.is_dead_reason = reason]

\* is_dead / is_dead_since / is_dead_reason as merge writes them
MarkDead(e, when, reason) ==
    [e EXCEPT !.is_dead = TRUE, !.is_dead_since = when, !.is_dead_reason = reason]

\* ------------------------------------------------------------------- merge
\* the lookup without is_dead=False
MatchingDeadToo(os, n, c, ty) ==
    {i \in Ids(os): os[i].name = n /\ os[i].country = c /\ os[i].type = ty}

\* Organization.objects.get(name=, country=, type=, is_dead=False): the rows it matches
Matching(os, n, c, ty) ==
    {i \in Ids(os): os[i].name = n /\ os[i].country = c /\ os[i].type = ty /\ ~os[i].is_dead}

\* the transaction's working copy of the tables, with the outcome of the body and the
\* rows its loop has bound to source_organization so far
Tx(os, cs, ps, us) ==
    [orgs |-> os, coords |-> cs, promises |-> ps, urls |-> us, error |-> "none",
     sources |-> <<>>]

\* new_organization saved without the twitter handle of the organization it supersedes
MergeTargetNoHandle(d, target, when, ty, c) ==
    LET m == Matching(d.orgs, target, c, ty) IN
    IF Cardinality(m) > 1 THEN [d EXCEPT !.error = "MultipleObjectsReturned"]
    ELSE LET killed == [i \in Ids(d.orgs) |->
                          IF i \in m THEN MarkDead(d.orgs[i], when, "reused") ELSE d.orgs[i]]
         IN [d EXCEPT !.orgs = Append(killed, Org(target, ty, c, when, FALSE, NoTime, "", ""))]

\* new_organization, saved after the live organization of the same name is superseded
MergeTarget(d, target, when, ty, c) ==
    LET m == Matching(d.orgs, target, c, ty) IN
    IF Cardinality(m) > 1 THEN [d EXCEPT !.error = "MultipleObjectsReturned"]
    ELSE IF m = {} THEN [d EXCEPT !.orgs = Append(d.orgs, Org(target, ty, c, when, FALSE, NoTime, "", ""))]
    ELSE LET p == CHOOSE i \in m: TRUE
             killed == [d.orgs EXCEPT ![p] = MarkDead(d.orgs[p], when, "reused")]
         IN [d EXCEPT !.orgs = Append(killed,
                Org(target, ty, c, when, FALSE, NoTime, "", d.orgs[p].twitter_handle))]

\* the coordinates of the source that merge copies
ClonedCoordinates(cs, s) == {i \in Ids(cs): cs[i].organization = s /\ ~cs[i].is_dead}

\* the promises still active, whoever made them
ClonedPromisesOfAnyone(ps, s, clock) ==
    {i \in Ids(ps): ps[i].expires_on # NoTime /\ ps[i].expires_on >= clock}

\* the promises of the source that merge copies
ClonedPromises(ps, s, clock) ==
    {i \in Ids(ps): ps[i].organization = s /\ ps[i].expires_on # NoTime /\ ps[i].expires_on >= clock}

\* deepcopy with id = None and organization = new_organization
Reparent(rows, new) == [i \in 1..Len(rows) |-> [rows[i] EXCEPT !.organization = new]]

\* the urls of the source handed over to new_organization instead of shared with it
AddOwnerInsteadOfSource(us, s, new) ==
    [i \in 1..Len(us) |->
        IF s \in us[i].organization
        THEN [us[i] EXCEPT !.organization = (us[i].organization \ {s}) \cup {new}]
        ELSE us[i]]

\* url.organization.add(new_organization) for every url of the source
AddOwner(us, s, new) ==
    [i \in 1..Len(us) |->
        IF s \in us[i].organization
        THEN [us[i] EXCEPT !.organization = us[i].organization \cup {new}]
        ELSE us[i]]

\* one round of the loop over source_organizations_names
MergeSource(d, name, new, when, ty, c, clock) ==
    LET m == Matching(d.orgs, name, c, ty) IN
    IF m = {} THEN [d EXCEPT !.error = "DoesNotExist"]
    ELSE IF Cardinality(m) > 1 THEN [d EXCEPT !.error = "MultipleObjectsReturned"]
    ELSE LET s == CHOOSE i \in m: TRUE IN
         [orgs |-> [d.orgs EXCEPT ![s] = MarkDead(d.orgs[s], when, "merged")],
          coords |-> AppendAll(d.coords,
                        Reparent(RowsOf(d.coords, ClonedCoordinates(d.coords, s), 1), new)),
          promises |-> AppendAll(d.promises,
                        Reparent(RowsOf(d.promises, ClonedPromises(d.promises, s, clock), 1), new)),
          urls |-> AddOwner(d.urls, s, new),
          error |-> "none",
          sources |-> Append(d.sources, s)]

RECURSIVE MergeSources(_, _, _, _, _, _, _)
MergeSources(d, names, new, when, ty, c, clock) ==
    IF names = <<>> \/ d.error # "none" THEN d
    ELSE MergeSources(MergeSource(d, Head(names), new, when, ty, c, clock),
                      Tail(names), new, when, ty, c, clock)

\* the body of merge, run on the working copy d
merge(d, names, target, when, ty, c, clock) ==
    LET d1 == MergeTarget(d, target, when, ty, c) IN
    IF d1.error # "none" THEN d1
    ELSE MergeSources(d1, names, Len(d1.orgs), when, ty, c, clock)

\* @transaction.atomic: what is stored when the body ends with outcome r
atomic(before, r) == IF r.error = "none" THEN r ELSE before

\* what the last call of merge leaves behind: its outcome and, when it committed, its
\* arguments and the id it gave the new organization
Call(result, sources, target, when, new, ids) ==
    [result |-> result, sources |-> sources, target |-> target, when |-> when, new |-> new,
     ids |-> ids]

\* merge(source_organizations_names, target_organization_name, when) with the default
\* organization_type and country, as Command.handle calls it
Merge(names, target, when, cap) ==
    \E r \in {merge(Tx(orgs, coords, promises, urls), names, target, when,
                    "municipality", "NL", now)}:
    \E stored \in {atomic(Tx(orgs, coords, promises, urls), r)}:
       /\ Len(stored.orgs) <= cap
       /\ orgs' = stored.orgs
       /\ coords' = stored.coords
       /\ promises' = stored.promises
       /\ urls' = stored.urls
       /\ last' = IF r.error = "none"
                  THEN Call(r.error, names, target, when, Len(stored.orgs), r.sources)
                  ELSE Call(r.error, <<>>, "", 0, 0, <<>>)
       /\ UNCHANGED <<ratings, now, tx>>

\* ------------------------------------------------- merge, statement by statement
\* no transaction is open
NoTx ==
    [pc |-> "idle", d |-> Tx(<<>>, <<>>, <<>>, <<>>), names |-> <<>>, all |-> <<>>,
     target |-> "", when |-> 0, new |-> 0]

\* what the other connections read of a table while a transaction has written to its
\* working copy and not yet committed: no transaction at all, every write is seen
VisibleUncommitted(stored, working) == working

\* what the other connections read of a table while a transaction has written to its
\* working copy and not yet committed
Visible(stored, working) == stored

\* merge is called and its transaction opens on the stored tables
Begin(names, target, when, cap) ==
    /\ tx.pc = "idle"
    /\ Len(orgs) < cap
    /\ tx' = [pc |-> "target", d |-> Tx(orgs, coords, promises, urls), names |-> names,
              all |-> names, target |-> target, when |-> when, new |-> 0]
    /\ UNCHANGED <<orgs, coords, promises, urls, ratings, now, last>>

\* what a statement of the open transaction leaves: the working copy d, read by the
\* others as far as Visible lets them
Written(d, pc, names, new) ==
    /\ tx' = [tx EXCEPT !.d = d, !.pc = pc, !.names = names, !.new = new]
    /\ orgs' = Visible(orgs, d.orgs)
    /\ coords' = Visible(coords, d.coords)
    /\ promises' = Visible(promises, d.promises)
    /\ urls' = Visible(urls, d.urls)
    /\ UNCHANGED <<ratings, now, last>>

\* the predecessor is superseded and new_organization saved
SaveTarget ==
    /\ tx.pc = "target"
    /\ \E d \in {MergeTarget(tx.d, tx.target, tx.when, "municipality", "NL")}:
          Written(d, IF d.error = "none" THEN "sources" ELSE "abort", tx.names, Len(d.orgs))

\* one round of the loop over the source names
MergeNextSource ==
    /\ tx.pc = "sources"
    /\ tx.names # <<>>
    /\ \E d \in {MergeSource(tx.d, Head(tx.names), tx.new, tx.when, "municipality", "NL", now)}:
          Written(d, IF d.error = "none" THEN "sources" ELSE "abort", Tail(tx.names), tx.new)

\* the body returned: the transaction commits its working copy
Commit ==
    /\ tx.pc = "sources"
    /\ tx.names = <<>>
    /\ orgs' = tx.d.orgs
    /\ coords' = tx.d.coords
    /\ promises' = tx.d.promises
    /\ urls' = tx.d.urls
    /\ last' = Call("none", tx.all, tx.target, tx.when, tx.new, tx.d.sources)
    /\ tx' = NoTx
    /\ UNCHANGED <<ratings, now>>

\* the body raised: the transaction is rolled back
Rollback ==
    /\ tx.pc = "abort"
    /\ last' = Call(tx.d.error, <<>>, "", 0, 0, <<>>)
    /\ tx' = NoTx
    /\ UNCHANGED <<orgs, coords, promises, urls, ratings, now>>

\* ------------------------------------------------------------ declare_dead
DeclareDead(queryset) ==
    /\ urls' = [i \in 1..Len(urls) |->
                  IF i \in queryset
                  THEN [urls[i] EXCEPT !.is_dead = TRUE, !.is_dead_reason = "Killed via admin interface",
                                       !.is_dead_since = now]
                  ELSE urls[i]]
    /\ UNCHANGED <<orgs, coords, promises, ratings, now, last, tx>>

\* ------------------------------------------------------------------- clock
Tick ==
    /\ now < MaxTime
    /\ now' = now + 1
    /\ UNCHANGED <<orgs, coords, promises, urls, ratings, last, tx>>

\* --------------------------------------------------------- snapshot append
\* the counts a snapshot is appended with
RatingInputs == {<<0, 0, 0, FALSE>>, <<1, 0, 1, TRUE>>}

\* the Snapshot Builder appends one organization rating row
AddRating(o, w, in, cap) ==
    /\ Len(ratings) < cap
    /\ w <= now
    /\ ratings' = Append(ratings, Rating(o, w, in[1], in[2], in[3], in[4]))
    /\ UNCHANGED <<orgs, coords, promises, urls, now, last, tx>>

\* ---------------------------------------------------------------- map_data
Max(S) == CHOOSE x \in S: \A y \in S: y <= x

\* the stacking subquery without its WHERE `when` <= T
StackedRatingsAnyWhen(rs, T) ==
    {Max({j \in Ids(rs): rs[j].organization = rs[i].organization}): i \in Ids(rs)}

\* SELECT MAX(id) FROM map_organizationrating WHERE `when` <= T GROUP BY organization_id
StackedRatings(rs, T) ==
    {Max({j \in Ids(rs): rs[j].organization = rs[i].organization /\ rs[j].when <= T}):
        i \in {k \in Ids(rs): rs[k].when <= T}}

\* the organization_stack subquery
OrganizationStack(os, T) == {i \in Ids(os): AliveAt(os[i], T)}

\* the rows the coordinate_stack subquery groups by (area, organization_id)
CoordinateStack(cs, T) == {i \in Ids(cs): AliveAt(cs[i], T)}

\* a coloring that looks at the counts before it looks for endpoints
ColorCountsFirst(endpoints, high, medium) ==
    IF high # 0 THEN "red" ELSE IF medium # 0 THEN "orange"
    ELSE IF ~endpoints THEN "gray" ELSE "green"

\* the color of a row: its calculation mentions "endpoints" or not, then its counts
Color(endpoints, high, medium) ==
    IF ~endpoints THEN "gray"
    ELSE IF high # 0 THEN "red" ELSE IF medium # 0 THEN "orange" ELSE "green"

\* a row of the query with the color map_data gives it
Feature(o, r, c) ==
    [organization_id |-> r.organization, organization_name |-> o.name,
     organization_type |-> o.type, area |-> c.area, geojsontype |-> c.geojsontype,
     when |-> r.when, endpoints |-> r.endpoints, high |-> r.high, medium |-> r.medium,
     low |-> r.low, color |-> Color(r.endpoints, r.high, r.medium)]

\* the joins of the query, before its GROUP BY
JoinedRows(T) ==
    {Feature(orgs[ratings[r].organization], ratings[r], coords[c]):
        <<r, c>> \in {p \in StackedRatings(ratings, T) \X CoordinateStack(coords, T):
            /\ ratings[p[1]].organization \in OrganizationStack(orgs, T)
            /\ coords[p[2]].organization = ratings[p[1]].organization}}

GroupKey(f) == <<f.area, f.organization_name>>

\* GROUP BY coordinate_stack.area, organization.name: one row of each group, the
\* engine's pick among the rows of the group
Grouped(rows) ==
    {S \in SUBSET rows:
        \A k \in {GroupKey(f): f \in rows}: Cardinality({f \in S: GroupKey(f) = k}) = 1}

\* every answer the query can give for time T
map_data(T) == Grouped(JoinedRows(T))

\* ------------------------------------------------------- organization_report
\* the report of an organization that has no snapshot up to the time asked for
EmptyReport ==
    [status |-> "empty", id |-> 0, name |-> "", twitter_handle |-> "", rating |-> 0,
     when |-> NoTime, high |-> 0, medium |-> 0, low |-> 0, promise |-> <<>>]

\* the response when the view raises
ErrorReport == [EmptyReport EXCEPT !.status = "error"]

\* filter(pk=organization_id, organizationrating__when__lte=when): the snapshots joined
ReportRows(o, T) == {i \in Ids(ratings): ratings[i].organization = o /\ ratings[i].when <= T}

\* the most recent promise of o that has not expired, as (created_on, expires_on)
CurrentPromise(o) ==
    LET live == {i \in Ids(promises):
                   /\ promises[i].organization = o
                   /\ promises[i].expires_on # NoTime
                   /\ promises[i].expires_on > now}
        first == {i \in live: \A j \in live: promises[j].expires_on <= promises[i].expires_on}
    IN IF live = {} THEN {<<>>}
       ELSE {<<promises[i].created_on, promises[i].expires_on>>: i \in first}

\* organization_report without its except clause: latest() raises on no row
organization_reportUncaught(o, T) ==
    IF ReportRows(o, T) = {} THEN {ErrorReport}
    ELSE {[status |-> "ok", id |-> o, name |-> orgs[o].name,
           twitter_handle |-> orgs[o].twitter_handle, rating |-> ratings[i].rating,
           when |-> ratings[i].when, high |-> ratings[i].high, medium |-> ratings[i].medium,
           low |-> ratings[i].low, promise |-> p]:
             i \in {k \in ReportRows(o, T):
                      \A j \in ReportRows(o, T): ratings[j].when <= ratings[k].when},
             p \in CurrentPromise(o)}

\* every response organization_report can give for organization o and time T: the
\* snapshot latest by `when`, or the empty report when latest() raises DoesNotExist
organization_report(o, T) ==
    IF ReportRows(o, T) = {} THEN {EmptyReport}
    ELSE {[status |-> "ok", id |-> o, name |-> orgs[o].name,
           twitter_handle |-> orgs[o].twitter_handle, rating |-> ratings[i].rating,
           when |-> ratings[i].when, high |-> ratings[i].high, medium |-> ratings[i].medium,
           low |-> ratings[i].low, promise |-> p]:
             i \in {k \in ReportRows(o, T):
                      \A j \in ReportRows(o, T): ratings[j].when <= ratings[k].when},
             p \in CurrentPromise(o)}

\* ------------------------------------------------------------ leaderboards
\* LIMIT 10 of the leaderboard queries
Limit == 10

\* the place of a name in the ascending order of organization.name
NameRank(n) == CASE n = "A" -> 1 [] n = "B" -> 2 [] n = "C" -> 3

\* the rows of topfail and topwin before GROUP BY: the snapshot the stacking subquery
\* selects for T, joined with its organization and with any coordinate of it
ToplistRows(T) ==
    {[organization_id |-> ratings[r].organization,
      organization_name |-> orgs[ratings[r].organization].name,
      when |-> ratings[r].when, high |-> ratings[r].high, medium |-> ratings[r].medium,
      low |-> ratings[r].low, endpoints |-> ratings[r].endpoints]:
        r \in {q \in StackedRatings(ratings, T):
                 \E c \in Ids(coords): coords[c].organization = ratings[q].organization}}

\* GROUP BY organization.name: one row of each name, the engine's pick
GroupedByName(rows) ==
    {S \in SUBSET rows:
        \A n \in {f.organization_name: f \in rows}:
            Cardinality({f \in S: f.organization_name = n}) = 1}

\* LIMIT
FirstRows(s) == SubSeq(s, 1, IF Len(s) < Limit THEN Len(s) ELSE Limit)

\* ORDER BY `high` DESC, `medium` DESC, `medium` DESC, `organization`.`name` ASC
TopfailBefore(f, g) ==
    \/ f.high > g.high
    \/ /\ f.high = g.high
       /\ \/ f.medium > g.medium
          \/ /\ f.medium = g.medium
             /\ \/ f.medium > g.medium
                \/ /\ f.medium = g.medium
                   /\ NameRank(f.organization_name) < NameRank(g.organization_name)

\* the rows of S in the order of topfail
TopfailSorted(S) ==
    CHOOSE s \in [1..Cardinality(S) -> S]:
        \A i, j \in 1..Cardinality(S): i < j => TopfailBefore(s[i], s[j])

\* every ranking topfail can return for time T
topfail(T) ==
    {FirstRows(TopfailSorted({f \in S: f.high > 0 \/ f.medium > 0})):
        S \in GroupedByName(ToplistRows(T))}

\* LENGTH(`calculation`): a calculation with endpoints is the longer one
CalculationLength(f) == IF f.endpoints THEN 1 ELSE 0

\* ORDER BY low ASC, LENGTH(`calculation`) DESC, `organization`.`name` ASC
TopwinBefore(f, g) ==
    \/ f.low < g.low
    \/ /\ f.low = g.low
       /\ \/ CalculationLength(f) > CalculationLength(g)
          \/ /\ CalculationLength(f) = CalculationLength(g)
             /\ NameRank(f.organization_name) < NameRank(g.organization_name)

\* the rows of S in the order of topwin
TopwinSorted(S) ==
    CHOOSE s \in [1..Cardinality(S) -> S]:
        \A i, j \in 1..Cardinality(S): i < j => TopwinBefore(s[i], s[j])

\* every ranking topwin can return for time T
topwin(T) ==
    {FirstRows(TopwinSorted({f \in S: f.high = 0 /\ f.medium = 0})):
        S \in GroupedByName(ToplistRows(T))}

\* -------------------------------------------------------------------- stats
\* calculation['organization']['urls'] of a snapshot
CalculationUrls(r) == r.calculation

\* int((count / total) * 100): the percentage cut off instead of rounded
RoundDown(count, total) == (100 * count) \div total

\* round((count / total) * 100): the nearest integer, the even one of two equally near
Round(count, total) ==
    LET q == (100 * count) \div total
        r == (100 * count) % total
    IN IF 2 * r < total THEN q
       ELSE IF 2 * r > total THEN q + 1
       ELSE IF q % 2 = 0 THEN q ELSE q + 1

\* a percentage field: 0 when there is nothing to divide by
Percentage(count, total) == IF total # 0 THEN Round(count, total) ELSE 0

\* the snapshots a timeframe counts: those the stacking subquery selects for T, but for
\* the ones rated -1
Counted(T) == {i \in StackedRatings(ratings, T): ratings[i].rating # -1}

\* the urls of the calculations of the snapshots in rows
UrlsCounted(rows) ==
    UNION {{<<i, k>>: k \in 1..Len(CalculationUrls(ratings[i]))}: i \in rows}

\* the measurement of the timeframe of time T
stats(T) ==
    LET rows == Counted(T)
        red == Cardinality({i \in rows: ratings[i].high # 0})
        orange == Cardinality({i \in rows: ratings[i].high = 0 /\ ratings[i].medium # 0})
        green == Cardinality({i \in rows: ratings[i].high = 0 /\ ratings[i].medium = 0})
        us == UrlsCounted(rows)
        url(p) == CalculationUrls(ratings[p[1]])[p[2]]
        red_urls == Cardinality({p \in us: url(p).high > 0})
        orange_urls == Cardinality({p \in us: url(p).high = 0 /\ url(p).medium > 0})
        green_urls == Cardinality({p \in us: url(p).high = 0 /\ url(p).medium = 0})
        included == Cardinality(rows)
        total_urls == Cardinality(us)
    IN [organizations |-> {ratings[i].organization: i \in rows},
        total_organizations |-> Cardinality(rows), included_organizations |-> included,
        red |-> red, orange |-> orange, green |-> green,
        total_urls |-> total_urls, red_urls |-> red_urls, orange_urls |-> orange_urls,
        green_urls |-> green_urls,
        red_percentage |-> Percentage(red, included),
        orange_percentage |-> Percentage(orange, included),
        green_percentage |-> Percentage(green, included),
        red_url_percentage |-> Percentage(red_urls, total_urls),
        orange_url_percentage |-> Percentage(orange_urls, total_urls),
        green_url_percentage |-> Percentage(green_urls, total_urls)]

\* the url entry of a calculation that p = <<snapshot, position>> stands for
UrlOf(p) == CalculationUrls(ratings[p[1]])[p[2]]

\* the url names the calculations of the snapshots in rows list
UrlNames(rows) == {UrlOf(p).url: p \in UrlsCounted(rows)}

\* noduplicates: for each url name the one entry the loop does not skip, the entry of
\* the snapshot the query returns first; the query has no ORDER BY
FirstListings(rows) ==
    {first \in [UrlNames(rows) -> UrlsCounted(rows)]:
        \A u \in UrlNames(rows): UrlOf(first[u]).url = u}

\* r['explanation'].startswith("Repeated finding.")
RepeatedFinding(explanation) ==
    explanation \in {"Repeated finding.", "Repeated finding. Probably because this url changed IP adresses."}

\* "%s/%s (%s)" % (protocol, port, "IPv4" or "IPv6")
EndpointType(e) == <<e.protocol, e.port, IF e.ip_version = 4 THEN "IPv4" ELSE "IPv6">>

\* the endpoints that set added_endpoint: url name and position, for every endpoint of
\* an entry that is not skipped with a rating that is no repeated finding
EndpointsCounted(rows, first) ==
    UNION {{<<u, k>>: k \in {j \in 1..Len(UrlOf(first[u]).endpoints):
                \E n \in 1..Len(UrlOf(first[u]).endpoints[j].ratings):
                    ~RepeatedFinding(UrlOf(first[u]).endpoints[j].ratings[n].explanation)}}:
           u \in UrlNames(rows)}

\* measurement["endpoint"] and measurement["endpoints"] of the timeframe of time T, for
\* every order the query can return its rows in
EndpointMeasurement(T) ==
    {LET counted == EndpointsCounted(Counted(T), first)
         type(c) == EndpointType(UrlOf(first[c[1]]).endpoints[c[2]])
     IN [endpoint |-> [t \in {type(c): c \in counted} |->
                          Cardinality({c \in counted: type(c) = t})],
         endpoints |-> Cardinality(counted)]:
     first \in FirstListings(Counted(T))}

\* -------------------------------------------------------- snapshot builder
\* the urls that carry an edge to organization o
UrlsOf(us, o) == {i \in Ids(us): o \in us[i].organization}

\* the scan findings of the urls: url u1 was scanned at 0 and again at 1, url u2 never
Findings ==
    { [url |-> 1, determined_on |-> 0, high |-> 1, medium |-> 0, low |-> 1],
      [url |-> 1, determined_on |-> 1, high |-> 0, medium |-> 1, low |-> 0] }

\* what is left of a snapshot row that was deleted: a row of no organization and no time
NoRating ==
    [organization |-> 0, when |-> MaxTime + 1, rating |-> -1, high |-> 0, medium |-> 0,
     low |-> 0, endpoints |-> FALSE, calculation |-> <<>>]

\* the finding of url u that counts at T: its most recent one
CurrentFinding(u, T) ==
    {f \in Findings: /\ f.url = u
                     /\ f.determined_on <= T
                     /\ \A g \in Findings:
                           (g.url = u /\ g.determined_on <= T) => g.determined_on <= f.determined_on}

RECURSIVE SumOf(_, _)
SumOf(fs, field) ==
    IF fs = {} THEN 0
    ELSE LET f == CHOOSE x \in fs: TRUE IN f[field] + SumOf(fs \ {f}, field)

\* the organization rollup at T: the sums over the urls of o alive at T, no endpoints
\* when no url of o was ever scanned, and the rating -1 when o has no url at all
RateAt(us, o, T) ==
    LET fs == UNION {CurrentFinding(u, T): u \in {i \in UrlsOf(us, o): AliveAt(us[i], T)}}
        r == Rating(o, T, SumOf(fs, "high"), SumOf(fs, "medium"), SumOf(fs, "low"), fs # {})
    IN IF UrlsOf(us, o) = {} THEN [r EXCEPT !.rating = -1] ELSE r

\* the times at which a finding of a url of o was determined
SignificantTimes(us, o) == {f.determined_on: f \in {g \in Findings: g.url \in UrlsOf(us, o)}}

\* the snapshot of o that immediately precedes T
Preceding(rs, o, T) ==
    LET mine == {i \in Ids(rs): rs[i].organization = o /\ rs[i].when <= T} IN
    {i \in mine: \A j \in mine: rs[j].when < rs[i].when \/ (rs[j].when = rs[i].when /\ j <= i)}

\* append the rollup of o at T unless it equals the preceding snapshot of o
RateOnMoment(rs, us, o, T) ==
    LET r == RateAt(us, o, T)
        same == \E i \in Preceding(rs, o, T): [rs[i] EXCEPT !.when = T] = r
    IN IF same THEN rs ELSE Append(rs, r)

\* create_history=True: the rollup at every significant time from t up to the clock
RECURSIVE RateHistory(_, _, _, _, _)
RateHistory(rs, us, o, t, clock) ==
    IF t > clock THEN rs
    ELSE IF t \in SignificantTimes(us, o)
         THEN RateHistory(RateOnMoment(rs, us, o, t), us, o, t + 1, clock)
         ELSE RateHistory(rs, us, o, t + 1, clock)

\* DetermineRatings.clear_organization_and_urls: the snapshots of o are deleted
clear_organization_and_urls(rs, o) ==
    [i \in 1..Len(rs) |-> IF rs[i].organization = o THEN NoRating ELSE rs[i]]

\* the table of snapshots after develop_determineratings has run for o
Rebuilt(rs, us, o, clock) ==
    RateOnMoment(RateHistory(clear_organization_and_urls(rs, o), us, o, 0, clock),
                 us, o, clock)

\* develop_determineratings: the snapshots of the one organization of the name the
\* command is written for are cleared and built again; get() raises, and nothing is
\* written, when no or several organizations have the name
develop_determineratings(name, cap) ==
    \E o \in {i \in Ids(orgs): orgs[i].name = name}:
    \E built \in {Rebuilt(ratings, urls, o, now)}:
       /\ Cardinality({i \in Ids(orgs): orgs[i].name = name}) = 1
       /\ Len(built) <= cap
       /\ ratings' = built
       /\ UNCHANGED <<orgs, coords, promises, urls, now, last, tx>>

\* default_organization_rating: every organization without a snapshot gets one rated
\* -1, of the current time
RECURSIVE DefaultRatings(_, _, _)
DefaultRatings(rs, o, clock) ==
    IF o > Len(orgs) THEN rs
    ELSE IF \E i \in Ids(rs): rs[i].organization = o
         THEN DefaultRatings(rs, o + 1, clock)
         ELSE DefaultRatings(Append(rs, [Rating(o, clock, 0, 0, 0, FALSE) EXCEPT !.rating = -1]),
                             o + 1, clock)

default_organization_rating(cap) ==
    \E rated \in {DefaultRatings(ratings, 1, now)}:
       /\ Len(rated) <= cap
       /\ ratings' = rated
       /\ UNCHANGED <<orgs, coords, promises, urls, now, last, tx>>

\* -------------------------------------------------------------------- spec
SourceLists == UNION {[1..n -> Names]: n \in 0..MaxSources}

\* the organizations, coordinates, promises and urls at the start: two live
\* municipalities, a municipality that died at 1, and a province of the same name
InitTables ==
    /\ orgs = << Org("A", "municipality", "NL", 0, FALSE, NoTime, "", ""),
                 Org("B", "municipality", "NL", 1, FALSE, NoTime, "", "@b"),
                 Org("C", "municipality", "NL", 0, TRUE, 1, "gone", ""),
                 Org("C", "province", "NL", 0, FALSE, NoTime, "", "") >>
    /\ coords = << Coord(1, "a1", "Polygon", 0, FALSE, NoTime),
                   Coord(1, "a0", "Polygon", 0, TRUE, 0),
                   Coord(2, "a2", "MultiPolygon", 1, FALSE, NoTime),
                   Coord(3, "a3", "Polygon", 0, FALSE, NoTime),
                   Coord(4, "a4", "Polygon", 0, FALSE, NoTime) >>
    /\ promises = << Promise(1, 0, 2), Promise(2, 0, 0) >>
    /\ urls = << Url("u1", {1}, 0, FALSE, NoTime), Url("u2", {2, 3}, 0, FALSE, NoTime) >>
    /\ now = 1
    /\ last = Call("none", <<>>, "", 0, 0, <<>>)
    /\ tx = NoTx

Init ==
    /\ InitTables
    /\ ratings = << Rating(1, 1, 1, 0, 1, TRUE), Rating(3, 0, 0, 0, 0, FALSE) >>

MergeCall ==
    \E names \in SourceLists, target \in Names, when \in Times:
        Merge(names, target, when, MaxOrgs)

DeclareDeadCall ==
    \E queryset \in SUBSET (1..Len(urls)): queryset # {} /\ DeclareDead(queryset)

AddRatingCall ==
    \E o \in 1..Len(orgs), w \in Times, in \in RatingInputs: AddRating(o, w, in, MaxRatings)

\* merges and snapshot appends, read by the map at any time
Next == MergeCall \/ Tick \/ AddRatingCall

Spec == Init /\ [][Next]_vars

\* merges and the admin action on urls
NextAdmin == MergeCall \/ Tick \/ DeclareDeadCall

SpecAdmin == Init /\ [][NextAdmin]_vars

\* merges of one source each, so that a merged organization can be merged again
RenameCall ==
    \E n \in Names, target \in Names, when \in Times:
        Merge(<<n>>, target, when, MaxChainOrgs)

NextChain == RenameCall \/ Tick \/ AddRatingCall

SpecChain == Init /\ [][NextChain]_vars

\* one snapshot of any counts, with or without endpoints, colored by the map
AllRatingInputs == Sev \X Sev \X Sev \X BOOLEAN

InitClassify ==
    /\ InitTables
    /\ ratings = <<>>

NextClassify ==
    \E o \in 1..Len(orgs), w \in Times, in \in AllRatingInputs:
        AddRating(o, w, in, MaxClassified)

SpecClassify == InitClassify /\ [][NextClassify]_vars

\* the rebuild of the snapshots of organization A, between merges and admin actions
RebuildCall == develop_determineratings("A", MaxBuilt)

NextRebuild == MergeCall \/ Tick \/ DeclareDeadCall \/ RebuildCall

SpecRebuild == InitClassify /\ [][NextRebuild]_vars

\* a merge run statement by statement while the views read the stored tables
BeginCall ==
    \E names \in SourceLists, target \in Names, when \in Times:
        Begin(names, target, when, MaxOrgs)

NextConcurrent == BeginCall \/ SaveTarget \/ MergeNextSource \/ Commit \/ Rollback \/ Tick

SpecConcurrent == Init /\ [][NextConcurrent]_vars

\* snapshots of the counts the leaderboards are to tell apart
LeaderboardInputs ==
    {<<2, 0, 0, TRUE>>, <<1, 5, 0, TRUE>>, <<1, 0, 9, TRUE>>, <<1, 0, 0, TRUE>>}

NextRanked ==
    \E o \in 1..Len(orgs), w \in Times, in \in LeaderboardInputs:
        AddRating(o, w, in, MaxRanked)

SpecRanked == InitClassify /\ [][NextRanked]_vars

\* MaxCounted organizations, all but the last with a url of their own, one snapshot
\* each, counted by stats
InitCounted ==
    /\ orgs = [i \in 1..MaxCounted |->
                  Org(<<"A", "B", "C">>[((i - 1) % 3) + 1],
                      <<"municipality", "province", "water board">>[(((i - 1) \div 3) % 3) + 1],
                      "NL", 0, FALSE, NoTime, "", "")]
    /\ coords = <<>>
    /\ promises = <<>>
    /\ urls = [i \in 1..(MaxCounted - 1) |->
                  Url(<<"u1", "u2", "u3", "u4", "u5", "u6", "u7", "u8", "u9">>[i], {i},
                      0, FALSE, NoTime)]
    /\ ratings = <<>>
    /\ now = 1
    /\ last = Call("none", <<>>, "", 0, 0, <<>>)
    /\ tx = NoTx

\* a red, an orange and a green snapshot, and one without endpoints
CountedInputs == {<<1, 0, 0, TRUE>>, <<0, 1, 0, TRUE>>, <<0, 0, 1, TRUE>>, <<0, 0, 0, FALSE>>}

NextCounted == \E in \in CountedInputs: AddRating(Len(ratings) + 1, 0, in, MaxCounted)

SpecCounted == InitCounted /\ [][NextCounted]_vars

\* snapshots whose calculations list up to MaxEndpoints endpoints for each url of the
\* organization, every endpoint with one finding, a repeated finding or two findings
EndpointRatings ==
    { <<[type |-> "tls", explanation |-> "finding"]>>,
      <<[type |-> "tls", explanation |-> "Repeated finding."]>>,
      <<[type |-> "tls", explanation |-> "finding"], [type |-> "hsts", explanation |-> "missing"]>> }

Endpoints == {Endpoint("https", 443, v, rs): v \in {4, 6}, rs \in EndpointRatings}

EndpointLists == UNION {[1..n -> Endpoints]: n \in 0..MaxEndpoints}

\* the snapshot builder appends a snapshot for o whose calculation lists es for each url
AddCalculated(o, w, es, cap) ==
    /\ Len(ratings) < cap
    /\ ratings' = Append(ratings,
          [Rating(o, w, 0, 0, 0, TRUE) EXCEPT
              !.calculation = [k \in 1..Len(@) |-> [@[k] EXCEPT !.endpoints = es]]])
    /\ UNCHANGED <<orgs, coords, promises, urls, now, last, tx>>

NextEndpoints ==
    \E o \in {i \in Ids(orgs): UrlsOf(urls, i) # {}}, es \in EndpointLists:
        AddCalculated(o, 0, es, MaxScanned)

SpecEndpoints == InitClassify /\ [][NextEndpoints]_vars

\* snapshots appended and default ratings given, counted by stats
DefaultRatingCall == default_organization_rating(MaxDefaulted)

NextDefaults == AddRatingCall \/ DefaultRatingCall \/ Tick

SpecDefaults == InitClassify /\ [][NextDefaults]_vars

\* ================================================================== claims
Range(s) == {s[i]: i \in 1..Len(s)}

\* the live organizations a source name stands for when merge is called
Resolved(os, n) == Matching(os, n, "NL", "municipality")

\* C1: a merge with a source name that resolves to no live organization fails with
\* a not-found error and leaves the stored state as it was. Stated on the steps: a
\* merge that committed had every source name resolve when it was called, and a merge
\* that failed raised DoesNotExist and changed no table.
C1_UnresolvedSourceAborts ==
    [][ /\ (Len(orgs') > Len(orgs)) =>
             \A i \in 1..Len(last'.sources): Resolved(orgs, last'.sources[i]) # {}
        /\ (last' # last /\ last'.result # "none") =>
             (last'.result = "DoesNotExist" /\ UNCHANGED <<orgs, coords, promises, urls>>)
      ]_vars

\* C2: at every timestamp T at most one organization per (name, country, type) is
\* alive at T.
C2_OneAlivePerTriple ==
    \A T \in Times: \A i, j \in Ids(orgs):
        (/\ orgs[i].name = orgs[j].name
         /\ orgs[i].country = orgs[j].country
         /\ orgs[i].type = orgs[j].type
         /\ AliveAt(orgs[i], T)
         /\ AliveAt(orgs[j], T)) => i = j

\* C3: right after a merge of sources into a target of another name commits, the map
\* for the cutover instant counts the new organization alive and shows none of the
\* sources.
C3_SourcesGoneAtCutover ==
    [][ (Len(orgs') > Len(orgs) /\ last'.target \notin Range(last'.sources)) =>
            \A T \in Times: T = last'.when =>
                /\ last'.new \in OrganizationStack(orgs, T)'
                /\ \A out \in map_data(T)': \A f \in out:
                       f.organization_id \notin Range(last'.ids)
      ]_vars

\* C4: a merge that commits changes the map of no timestamp before its cutover.
C4_HistoryImmutable ==
    [][ (Len(orgs') > Len(orgs)) =>
            \A T \in Times: T < last'.when => map_data(T)' = map_data(T)
      ]_vars

\* C4 witness: a merge committed with a cutover after a time at which the map shows
\* one of its sources.
C4_Witness ==
    /\ last.result = "none"
    /\ \E T \in Times:
          /\ T < last.when
          /\ \E out \in map_data(T): \E f \in out: f.organization_id \in Range(last.ids)

\* C5: right after a merge commits, the urls of the new organization are the union
\* of the urls the named sources owned when merge was called.
C5_UrlsAreUnionOfSources ==
    [][ (Len(orgs') > Len(orgs)) =>
            UrlsOf(urls', last'.new) =
                UNION {UrlsOf(urls, o):
                         o \in UNION {Resolved(orgs, n): n \in Range(last'.sources)}}
      ]_vars

\* C6: for every organization and every T the resolver selects one snapshot, the one
\* with the greatest `when` among the organization's snapshots with when <= T.
C6_LatestByWhen ==
    \A T \in Times: \A i, j \in StackedRatings(ratings, T):
        /\ (ratings[i].organization = ratings[j].organization => i = j)
        /\ \A k \in Ids(ratings):
              (ratings[k].organization = ratings[i].organization /\ ratings[k].when <= T)
                  => ratings[k].when <= ratings[i].when

\* C7: the map for T shows only organizations alive at T, and it shows every dead
\* organization for each T between its created_on and is_dead_since at which it has a
\* snapshot and a coordinate alive at T.
C7_AliveExactlyShown ==
    \A T \in Times: \A out \in map_data(T):
        /\ \A f \in out:
              LET o == orgs[f.organization_id] IN
              o.created_on <= T /\ (~o.is_dead \/ T <= o.is_dead_since)
        /\ \A o \in Ids(orgs):
              (/\ orgs[o].is_dead
               /\ orgs[o].created_on <= T
               /\ T <= orgs[o].is_dead_since
               /\ \E r \in Ids(ratings): ratings[r].organization = o /\ ratings[r].when <= T
               /\ \E c \in Ids(coords): coords[c].organization = o /\ AliveAt(coords[c], T))
              => \E f \in out: f.organization_id = o

\* C8: every organization and url has is_dead_since set exactly when is_dead is
\* true, and never before its created_on.
C8_DeadSinceIffDead ==
    \A e \in Range(orgs) \cup Range(urls):
        /\ (e.is_dead_since # NoTime) <=> e.is_dead
        /\ (e.is_dead_since # NoTime) => e.created_on <= e.is_dead_since

\* C9: a shown snapshot is gray when its calculation has no endpoints, whatever its
\* counts; otherwise red iff high > 0, orange iff high = 0 and medium > 0, green iff
\* high = 0 and medium = 0.
C9_Classification ==
    \A T \in Times: \A out \in map_data(T): \A f \in out:
        /\ f.color \in {"gray", "red", "orange", "green"}
        /\ ~f.endpoints => f.color = "gray"
        /\ f.endpoints =>
              /\ (f.color = "red" <=> f.high > 0)
              /\ (f.color = "orange" <=> (f.high = 0 /\ f.medium > 0))
              /\ (f.color = "green" <=> (f.high = 0 /\ f.medium = 0))

\* C9 witness: the map shows a snapshot with endpoints whose only nonzero count is low.
C9_Witness ==
    \E T \in Times: \E out \in map_data(T): \E f \in out:
        f.endpoints /\ f.high = 0 /\ f.medium = 0 /\ f.low > 0 /\ f.color = "green"

\* C10: in one state, for T1 < T2, the snapshot selected for an organization at T1 has
\* when <= T1, the one selected at T2 has when <= T2, and the T2 selection is not
\* older than the T1 selection; this for the stacking subquery and for the map.
C10_MonotoneSelection ==
    \A T1, T2 \in Times: T1 < T2 =>
        /\ \A i \in StackedRatings(ratings, T1): \A j \in StackedRatings(ratings, T2):
              ratings[i].organization = ratings[j].organization =>
                  /\ ratings[i].when <= T1
                  /\ ratings[j].when <= T2
                  /\ ratings[i].when <= ratings[j].when
        /\ \A o1 \in map_data(T1): \A o2 \in map_data(T2): \A f \in o1: \A g \in o2:
              f.organization_id = g.organization_id =>
                  f.when <= T1 /\ g.when <= T2 /\ f.when <= g.when

\* C10 witness: an organization is selected at T1 and at T2 > T1 by a snapshot that
\* was appended after one with a later `when` that T2 also covers.
C10_Witness ==
    \E T1, T2 \in Times:
        /\ T1 < T2
        /\ \E i \in StackedRatings(ratings, T1): \E j \in StackedRatings(ratings, T2):
              /\ ratings[i].organization = ratings[j].organization
              /\ \E k \in Ids(ratings):
                    /\ k < i
                    /\ ratings[k].organization = ratings[i].organization
                    /\ ratings[i].when < ratings[k].when
                    /\ ratings[k].when <= T2

\* the (organization, when) of the snapshots the stacking subquery selects for T
Selected(rs, T) == {<<rs[i].organization, rs[i].when>>: i \in StackedRatings(rs, T)}

\* the snapshots rs written in another order: row i is what rs holds at p[i]
Reordered(rs, p) == [i \in 1..Len(rs) |-> rs[p[i]]]

\* C11: for the snapshots at hand, the resolver selects for every T a snapshot of the
\* same `when` per organization in whatever order the snapshots were written; the
\* order decides only among snapshots of one organization with equal `when`.
C11_OrderOfWritingIrrelevant ==
    \A T \in Times: \A p \in Permutations(Ids(ratings)):
        Selected(Reordered(ratings, p), T) = Selected(ratings, T)

\* C12: a second run of the snapshot builder for an organization, right after a first
\* one and with nothing changed in between, appends no row: the table of snapshots
\* after the second run is the table after the first.
C12_RebuildIdempotent ==
    \A o \in Ids(orgs):
        LET once == Rebuilt(ratings, urls, o, now) IN
        Rebuilt(once, urls, o, now) = once

\* C13: snapshots are append-only: every step keeps every snapshot row as it was.
C13_SnapshotsAppendOnly ==
    [][ /\ Len(ratings') >= Len(ratings)
        /\ \A i \in Ids(ratings): ratings'[i] = ratings[i] ]_vars

\* the tables a view reads
Stored == <<orgs, coords, promises, urls>>

\* C14: what a view reads while a merge runs is the complete state before the merge,
\* and the tables change only when the merge commits, then to the state in which every
\* source is merged: no statement of an open merge shows on its own.
C14_MergeSeenWholeOrNotAtAll ==
    [][ /\ (tx.pc # "idle" /\ tx'.pc # "idle") => Stored' = Stored
        /\ (Stored' # Stored) =>
              /\ tx.pc = "sources" /\ tx.names = <<>> /\ tx'.pc = "idle"
              /\ Stored' = <<tx.d.orgs, tx.d.coords, tx.d.promises, tx.d.urls>>
      ]_vars

\* C14 witness: an open merge has marked a source dead and still has a source to go,
\* while the stored tables have neither the new organization nor the dead source.
C14_Witness ==
    /\ tx.pc = "sources"
    /\ tx.names # <<>>
    /\ tx.d.sources # <<>>
    /\ Len(orgs) < Len(tx.d.orgs)
    /\ \E s \in Range(tx.d.sources) \cap Ids(orgs): tx.d.orgs[s].is_dead /\ ~orgs[s].is_dead

\* C15: death is terminal: a step leaves every dead organization and every dead url
\* dead, with the is_dead_since it had.
C15_DeathIsTerminal ==
    [][ /\ \A i \in Ids(orgs):
              orgs[i].is_dead =>
                  orgs'[i].is_dead /\ orgs'[i].is_dead_since = orgs[i].is_dead_since
        /\ \A i \in Ids(urls):
              urls[i].is_dead =>
                  urls'[i].is_dead /\ urls'[i].is_dead_since = urls[i].is_dead_since
      ]_vars

\* C16: a ranking of topfail is sorted by high descending, then medium descending, then
\* low descending, then name ascending: of two entries the one listed first has the
\* greater high, or the same high and the greater medium, or the same high and medium
\* and the greater low, or the same counts and the name that sorts first.
C16_RankingOrder ==
    \A T \in Times: \A ranking \in topfail(T): \A i, j \in 1..Len(ranking):
        i < j =>
            LET f == ranking[i]
                g == ranking[j]
            IN \/ f.high > g.high
               \/ f.high = g.high /\ f.medium > g.medium
               \/ f.high = g.high /\ f.medium = g.medium /\ f.low > g.low
               \/ /\ f.high = g.high /\ f.medium = g.medium /\ f.low = g.low
                  /\ NameRank(f.organization_name) < NameRank(g.organization_name)

\* p is an integer nearest to 100 * count / total, and 0 when total is 0
NearestPercentage(p, count, total) ==
    IF total = 0 THEN p = 0
    ELSE /\ 2 * (100 * count - p * total) <= total
         /\ 2 * (p * total - 100 * count) <= total

\* C17: in every timeframe each of the six percentage fields is 100 * count / total
\* rounded to the nearest integer, over the included organizations for the three
\* organization fields and over total_urls for the three url fields, and 0 when there
\* is nothing to divide by.
C17_PercentagesRounded ==
    \A T \in Times:
        LET m == stats(T) IN
        /\ NearestPercentage(m.red_percentage, m.red, m.included_organizations)
        /\ NearestPercentage(m.orange_percentage, m.orange, m.included_organizations)
        /\ NearestPercentage(m.green_percentage, m.green, m.included_organizations)
        /\ NearestPercentage(m.red_url_percentage, m.red_urls, m.total_urls)
        /\ NearestPercentage(m.orange_url_percentage, m.orange_urls, m.total_urls)
        /\ NearestPercentage(m.green_url_percentage, m.green_urls, m.total_urls)

\* C17 witness: a timeframe of eight organizations, three of them red, of which 37.5
\* percent is reported as 38, and of seven urls, two of them orange, reported as 29.
C17_Witness ==
    \E T \in Times:
        LET m == stats(T) IN
        /\ m.included_organizations = 8 /\ m.red = 3 /\ m.red_percentage = 38
        /\ m.total_urls = 7 /\ m.orange_urls = 2 /\ m.orange_url_percentage = 29

\* C18: an organization alive at T that has no snapshot with when <= T is in no answer
\* of the map for T, and its report for T is the empty report, not an error.
C18_NoSnapshotNoEntry ==
    \A T \in Times: \A o \in Ids(orgs):
        (AliveAt(orgs[o], T) /\ ReportRows(o, T) = {}) =>
            /\ \A out \in map_data(T): \A f \in out: f.organization_id # o
            /\ organization_report(o, T) = {EmptyReport}

\* C18 witness: at some T an organization with a coordinate alive at T has a snapshot,
\* though none up to T, while the map for T shows another organization.
C18_Witness ==
    \E T \in Times: \E o \in Ids(orgs):
        /\ AliveAt(orgs[o], T)
        /\ ReportRows(o, T) = {}
        /\ \E i \in Ids(ratings): ratings[i].organization = o
        /\ \E c \in CoordinateStack(coords, T): coords[c].organization = o
        /\ \E out \in map_data(T): out # {}

\* C19: every organization a stats timeframe for T counts, and every organization
\* topfail or topwin lists for T, is alive at T.
C19_OnlyAliveCounted ==
    \A T \in Times:
        /\ \A o \in stats(T).organizations: AliveAt(orgs[o], T)
        /\ \A ranking \in topfail(T) \cup topwin(T): \A i \in 1..Len(ranking):
              AliveAt(orgs[ranking[i].organization_id], T)

\* the snapshots selected for T, but for those rated -1, that the classification of the
\* map gives the tag
Tagged(T, tag) ==
    {i \in StackedRatings(ratings, T):
        /\ ratings[i].rating # -1
        /\ Color(ratings[i].endpoints, ratings[i].high, ratings[i].medium) = tag}

\* C20: in every timeframe a snapshot rated -1 adds to no counter, every other selected
\* snapshot is counted under the tag its classification gives it, and the counts per
\* tag add up to total_organizations.
C20_CountedByTag ==
    \A T \in Times:
        LET m == stats(T) IN
        /\ m.total_organizations =
              Cardinality({i \in StackedRatings(ratings, T): ratings[i].rating # -1})
        /\ m.red = Cardinality(Tagged(T, "red"))
        /\ m.orange = Cardinality(Tagged(T, "orange"))
        /\ m.green = Cardinality(Tagged(T, "green"))
        /\ m.red + m.orange + m.green + Cardinality(Tagged(T, "gray")) = m.total_organizations

\* C21: a merge that commits creates no url, deletes no url and removes no edge: every
\* url keeps its fields and its owners, every organization there was owns the urls it
\* owned, and an edge is added only from a url of a source to the new organization.
C21_UrlEdgesOnlyAdded ==
    [][ (Len(orgs') > Len(orgs)) =>
            /\ Len(urls') = Len(urls)
            /\ \A i \in Ids(urls):
                  /\ urls'[i] = [urls[i] EXCEPT !.organization = urls'[i].organization]
                  /\ urls[i].organization \subseteq urls'[i].organization
                  /\ urls'[i].organization \ urls[i].organization \subseteq {last'.new}
                  /\ (last'.new \in urls'[i].organization) =>
                        \E o \in Range(last'.ids): o \in urls[i].organization
            /\ \A o \in Ids(orgs): UrlsOf(urls', o) = UrlsOf(urls, o)
      ]_vars

\* C21 witness: a merge committed and its new organization shares a url with a source.
C21_Witness ==
    /\ last.result = "none"
    /\ \E i \in Ids(urls): \E o \in Range(last.ids):
          o # last.new /\ {o, last.new} \subseteq urls[i].organization

\* the coordinate rows a step appended
NewCoordinates == {i \in Ids(coords'): i > Len(coords)}

\* the rows of ids in table cs with the area and the geometry kind of row c
SameShape(cs, ids, c) ==
    {i \in ids: cs[i].area = c.area /\ cs[i].geojsontype = c.geojsontype}

\* C22: a merge that commits gives every coordinate of a source that is
\* alive at the cutover `when` exactly one new row of the new organization with its area
\* and geometry kind, clones no coordinate that is not alive at `when`, and leaves the
\* rows of the sources as they were.
C22_ClonesAliveAtWhen ==
    [][ (Len(orgs') > Len(orgs)) =>
            /\ \A i \in Ids(coords): coords'[i] = coords[i]
            /\ \A i \in NewCoordinates: coords'[i].organization = last'.new
            /\ \A T \in Times: T = last'.when =>
                 \A c \in Range(coords'):
                    Cardinality(SameShape(coords', NewCoordinates, c)) =
                    Cardinality(SameShape(coords,
                        {i \in Ids(coords): /\ coords[i].organization \in Range(last'.ids)
                                            /\ AliveAt(coords[i], T)}, c))
      ]_vars

MapPairs(T) ==
    {<<coords[c].organization, coords[c].area>>:
        c \in {k \in CoordinateStack(coords, T):
                 /\ coords[k].organization \in OrganizationStack(orgs, T)
                 /\ \E r \in Ids(ratings):
                       ratings[r].organization = coords[k].organization /\ ratings[r].when <= T}}

\* C24: every answer of map_data for T holds exactly one feature for each pair of an
\* organization alive at T with a snapshot with when <= T and an area of a coordinate of
\* that organization alive at T, and no feature for anything else; two organizations
\* never share a feature.
C24_OneFeaturePerOrganizationAndArea ==
    \A T \in Times: \A out \in map_data(T):
        /\ \A f \in out: <<f.organization_id, f.area>> \in MapPairs(T)
        /\ \A p \in MapPairs(T):
              Cardinality({f \in out: f.organization_id = p[1] /\ f.area = p[2]}) = 1

\* C25: the url counts of a timeframe count every url once, also a url that several of
\* the counted organizations own: total_urls is the number of urls the counted
\* calculations list, and red_urls, orange_urls and green_urls divide these urls.
C25_UrlsCountedOnce ==
    \A T \in Times:
        LET m == stats(T)
            us == UrlsCounted(Counted(T))
            names == UrlNames(Counted(T))
        IN /\ m.total_urls = Cardinality(names)
           /\ m.red_urls + m.orange_urls + m.green_urls = Cardinality(names)
           /\ m.red_urls <= Cardinality({UrlOf(p).url: p \in {q \in us: UrlOf(q).high > 0}})
           /\ m.orange_urls <= Cardinality({UrlOf(p).url:
                    p \in {q \in us: UrlOf(q).high = 0 /\ UrlOf(q).medium > 0}})
           /\ m.green_urls <= Cardinality({UrlOf(p).url:
                    p \in {q \in us: UrlOf(q).high = 0 /\ UrlOf(q).medium = 0}})

\* C26: in every timeframe, for each url and each protocol and port, at most one IPv4
\* and at most one IPv6 endpoint is counted in the endpoint classes and in the total of
\* endpoints, however many endpoints of that class the calculation lists.
C26_OneEndpointPerClass ==
    \A T \in Times: \A m \in EndpointMeasurement(T):
        LET us == UrlsCounted(Counted(T))
            classes == {<<UrlOf(p).url, EndpointType(UrlOf(p).endpoints[k])>>:
                            <<p, k>> \in {x \in us \X (1..MaxEndpoints + 1):
                                            x[2] <= Len(UrlOf(x[1]).endpoints)}}
        IN /\ m.endpoints <= Cardinality(classes)
           /\ \A t \in DOMAIN m.endpoint:
                 m.endpoint[t] <= Cardinality({c \in classes: c[2] = t})

\* C27: after every merge that commits, whatever its source list, the organization it
\* created is alive and is the only alive organization with the target's name, country
\* and type.
C27_NewOrganizationAlive ==
    [][ \A n \in Names:
          (Len(orgs') > Len(orgs) /\ n = last'.target) =>
              /\ ~orgs'[Len(orgs')].is_dead
              /\ {i \in Ids(orgs'): /\ orgs'[i].name = n /\ orgs'[i].country = "NL"
                                    /\ orgs'[i].type = "municipality" /\ ~orgs'[i].is_dead}
                    = {Len(orgs')}
      ]_vars

C29_ReportAndMapAgree ==
    \A T \in Times: \A out \in map_data(T): \A f \in out:
        \A rep \in organization_report(f.organization_id, T):
            rep.status = "ok" =>
                /\ rep.when = f.when
                /\ rep.high = f.high
                /\ rep.medium = f.medium
                /\ rep.low = f.low

\* C30: once a merge has committed, a merge called next that names one of its sources
\* again, both targets named otherwise than that source, aborts on the lookup of the
\* source with DoesNotExist, and what is stored is every table as the first merge left it.
C30_SecondMergeAborts ==
    last.result = "none" =>
       \A n \in Range(last.sources) \ {last.target}:
          \A names \in {l \in SourceLists: n \in Range(l)}:
             \A target \in Names \ {n}: \A when \in Times:
                LET before == Tx(orgs, coords, promises, urls)
                    r == merge(before, names, target, when, "municipality", "NL", now)
                IN /\ r.error = "DoesNotExist"
                   /\ atomic(before, r) = before

\* C30 witness: a merge has committed and marked dead a source that is not named as its
\* target, and merge([that source], another name) is the call to come.
C30_Witness ==
    /\ last.result = "none"
    /\ \E k \in 1..Len(last.sources):
          /\ last.sources[k] # last.target
          /\ last.ids[k] # last.new
          /\ orgs[last.ids[k]].is_dead
          /\ orgs[last.ids[k]].is_dead_reason = "merged"

====
